---- MODULE Spec2Model ----
(***************************************************************************)
(* A model of glacmaptools: GlacierOutlines (src/src/gcmt/geometry.py) and *)
(* the RGI region resolver (src/src/glacmaptools/utils.py).                *)
(*                                                                         *)
(* Geometries live on a line of unit cells 1..N.  A geometry is the set of *)
(* cells it covers; its single parts are the maximal runs of adjacent      *)
(* cells, so {1,3} is a two-part multipolygon and {1,2} a polygon.  A      *)
(* geometry also carries whether it is OGC-valid and whether its ring has  *)
(* repeated (closer than 1e-6) consecutive vertices.                       *)
(***************************************************************************)
EXTENDS Integers, Sequences, FiniteSets, TLC

VARIABLES ds, other, rgi, dirs, files, shp, ret, prev

vars == <<ds, other, rgi, dirs, files, shp, ret, prev>>

(* ------------------------------ bounds -------------------------------- *)

\* cells of the line the outlines of Spec are drawn on
NCells == 3
\* records of a collection in Spec
MaxRecs == 3
\* the same for SpecClean, whose geometries may also have repeated vertices
CleanCells == 2
MaxCleanRecs == 2
\* the same for each of the two collections of SpecDiff
DiffCells == 3
MaxDiffRecs == 1
\* records of a collection in SpecReindex
MaxReindexRecs == 150
\* the same for SpecJoin: the outlines, and the reference inventory
JoinCells == 3
MaxJoinRecs == 2
MaxRefRecs == 2
\* region numbers -RegionSpan..RegionSpan are tried in SpecLoader
RegionSpan == 21

(* ----------------------------- geometry ------------------------------- *)

Shapes(n) == (SUBSET (1..n)) \ {{}}

\* the geometries over n cells: any validity, with or without repeated vertices
Geoms(n) == [cells : Shapes(n), valid : BOOLEAN, dup : BOOLEAN]

\* the geometries over n cells that have no repeated vertices
CleanGeoms(n) == [cells : Shapes(n), valid : BOOLEAN, dup : {FALSE}]

\* the valid ones among them
PlainGeoms(n) == [cells : Shapes(n), valid : {TRUE}, dup : {FALSE}]

\* a valid geometry without repeated vertices
Plain(c) == [cells |-> c, valid |-> TRUE, dup |-> FALSE]

\* shapely's overlaps: the interiors meet, and neither geometry covers the other
overlaps(g, h) ==
    /\ g.cells \cap h.cells # {}
    /\ ~(g.cells \subseteq h.cells)
    /\ ~(h.cells \subseteq g.cells)

intersection(g, h) == [cells |-> g.cells \cap h.cells, valid |-> TRUE, dup |-> FALSE]

difference(g, h) == [cells |-> g.cells \ h.cells, valid |-> TRUE, dup |-> FALSE]

\* the single parts of a set of cells: its maximal runs, lowest first.
\* GEOS counts one part for an empty polygon, so an empty geometry explodes
\* to itself.
Runs(c) ==
    {r \in SUBSET c : /\ r # {}
                      /\ \E a \in c, b \in c : /\ r = a..b
                                               /\ (a - 1) \notin c
                                               /\ (b + 1) \notin c}

Min(S) == CHOOSE m \in S : \A x \in S : m <= x

Max(S) == CHOOSE m \in S : \A x \in S : m >= x

RECURSIVE RunSeq(_)
RunSeq(rs) ==
    IF rs = {} THEN <<>>
    ELSE LET first == CHOOSE r \in rs : \A q \in rs : Min(r) <= Min(q)
         IN <<first>> \o RunSeq(rs \ {first})

parts(g) ==
    IF g.cells = {} THEN <<g>>
    ELSE LET rs == RunSeq(Runs(g.cells))
         IN [k \in 1..Len(rs) |-> [g EXCEPT !.cells = rs[k]]]

\* GeoSeries.remove_repeated_points(tolerance=1e-6) on one geometry
remove_repeated_points(g) == [g EXCEPT !.dup = FALSE]

(* ---------------------------- identifiers ----------------------------- *)

\* an integer label of a RangeIndex
IntId(k) == [kind |-> "int", prefix |-> "", digits |-> <<>>, num |-> k]

\* a string label "prefix.digits"
StrId(p, d) == [kind |-> "str", prefix |-> p, digits |-> d, num |-> 0]

\* str(n) for n >= 0, as its decimal digits
RECURSIVE str(_)
str(n) == IF n < 10 THEN <<n>> ELSE Append(str(n \div 10), n % 10)

\* s.zfill(width)
RECURSIVE zfill(_, _)
zfill(s, width) == IF Len(s) >= width THEN s ELSE zfill(<<0>> \o s, width)

(* ---------------------------- collections ----------------------------- *)

\* a collection as read from a file: RangeIndex 0..n-1; the one attribute
\* column of a record holds the row it had in the file
Loaded(gs) ==
    [k \in 1..Len(gs) |->
        [id |-> IntId(k - 1), geom |-> gs[k], attr |-> [row |-> k]]]

SeqsUpTo(S, n) == UNION {[1..m -> S] : m \in 0..n}

Collections(G, n) == {Loaded(gs) : gs \in SeqsUpTo(G, n)}

\* GeoDataFrame.explode(): one row per part, the index label repeated
RECURSIVE explode(_)
explode(rows) ==
    IF rows = <<>> THEN <<>>
    ELSE LET r == Head(rows)
             ps == parts(r.geom)
         IN [k \in 1..Len(ps) |-> [r EXCEPT !.geom = ps[k]]] \o explode(Tail(rows))

\* GeoDataFrame.union_all(): the dissolved geometry
union_all(rows) ==
    [cells |-> UNION {rows[k].geom.cells : k \in 1..Len(rows)},
     valid |-> TRUE, dup |-> FALSE]

\* self.ds.loc[k:] : a label slice.  On an integer index (always the
\* increasing range(len) here) it selects the labels >= k; on a string index
\* an integer bound that is no label is rejected with a TypeError.
loc_from(self, k) ==
    IF \E p \in 1..Len(self) : self[p].id.kind = "str"
    THEN [outcome |-> "TypeError", rows |-> <<>>]
    ELSE [outcome |-> "ok",
          rows |-> SelectSeq(self, LAMBDA r : r.id.num >= k)]

\* the body of the loop of _overlapping_inds for the record at position p
\* (0-based p - 1, so enumerate(..., 1) gives n = p)
overlap_row(self, p) ==
    LET n == p
        tail == loc_from(self, n + 1)
        hits == SelectSeq(tail.rows, LAMBDA r : overlaps(r.geom, self[p].geom))
    IN [outcome |-> tail.outcome,
        pairs |-> [k \in 1..Len(hits) |-> <<self[p].id, hits[k].id>>]]

RECURSIVE overlap_loop(_, _)
overlap_loop(self, p) ==
    IF p > Len(self) - 1 THEN [outcome |-> "ok", pairs |-> <<>>]
    ELSE LET row == overlap_row(self, p)
         IN IF row.outcome # "ok" THEN row
            ELSE LET rest == overlap_loop(self, p + 1)
                 IN [outcome |-> rest.outcome,
                     pairs |-> IF rest.outcome = "ok"
                               THEN row.pairs \o rest.pairs ELSE <<>>]

_overlapping_inds(self) == overlap_loop(self, 1)

\* self.ds.loc[ind, 'geometry']
geometry_of(self, ind) ==
    (CHOOSE r \in {self[k] : k \in 1..Len(self)} : r.id = ind).geom

get_overlaps(self) ==
    LET found == _overlapping_inds(self)
        pairs == found.pairs
        geoms == [k \in 1..Len(pairs) |->
                     [id |-> IntId(k - 1),
                      geom |-> intersection(geometry_of(self, pairs[k][1]),
                                            geometry_of(self, pairs[k][2])),
                      attr |-> [ind1 |-> pairs[k][1], ind2 |-> pairs[k][2]]]]
    IN IF found.outcome # "ok" THEN [outcome |-> found.outcome, rows |-> <<>>]
       \* left, right = zip(*pairs) cannot unpack an empty zip
       ELSE IF Len(pairs) = 0 THEN [outcome |-> "ValueError", rows |-> <<>>]
       ELSE [outcome |-> "ok", rows |-> explode(explode(geoms))]

(* ---------------------------- filesystem ------------------------------ *)

\* self.name, and os.path.splitext(os.path.basename(self.name))[0]
name == [dir |-> "data", stem |-> "outlines", ext |-> ".shp"]

output_prefix == name.stem

\* os.makedirs(d, exist_ok=True)
makedirs(fs, d) ==
    [fs EXCEPT !.dirs = @ \cup {d},
               !.oplog = Append(@, [op |-> "makedirs", dir |-> d, file |-> "",
                                    ok |-> TRUE])]

\* to_file(Path(d, f)): fails when the directory d does not exist
to_file(fs, d, f, rows) ==
    IF fs.failed THEN fs
    ELSE IF d \in fs.dirs
    THEN [fs EXCEPT !.files = {x \in @ : ~(x.dir = d /\ x.file = f)}
                                \cup {[dir |-> d, file |-> f, rows |-> rows]},
                    !.oplog = Append(@, [op |-> "to_file", dir |-> d, file |-> f,
                                         ok |-> TRUE])]
    ELSE [fs EXCEPT !.failed = TRUE,
                    !.oplog = Append(@, [op |-> "to_file", dir |-> d, file |-> f,
                                         ok |-> FALSE])]

(* ------------------------------ validate ------------------------------ *)

all_valid(self) == \A k \in 1..Len(self) : self[k].geom.valid

\* self.ds.loc[~self.is_valid], with the reason column added
invalid_rows(self) ==
    LET invalid == SelectSeq(self, LAMBDA r : ~r.geom.valid)
    IN [k \in 1..Len(invalid) |->
          [invalid[k] EXCEPT !.attr = [row |-> @.row, reason |-> "is_valid_reason"]]]

\* the labels explode() repeats, and the original records carrying them
multiinds(self) ==
    LET ex == explode(self)
    IN {ex[k].id : k \in {j \in 1..Len(ex) : \E i \in 1..(j - 1) : ex[i].id = ex[j].id}}

multi_rows(self) == SelectSeq(self, LAMBDA r : r.id \in multiinds(self))

\* the multi-part check, lines 88-98
check_multi(self, fs, multi_ok) ==
    IF ~multi_ok
    THEN LET has_multi == Len(self) # Len(explode(self))
         IN [has_multi |-> has_multi,
             fs |-> IF has_multi
                    THEN to_file(fs, "errors", output_prefix \o "_multi.gpkg",
                                 multi_rows(self))
                    ELSE fs]
    ELSE [has_multi |-> FALSE, fs |-> fs]

\* self['geometry'] = cleaned_geom without the assignment taking effect
setitem_geometry_lost(self, geoms) == self

\* self['geometry'] = cleaned_geom
setitem_geometry(self, geoms) ==
    [k \in 1..Len(self) |-> [self[k] EXCEPT !.geom = geoms[k]]]

validate(self, fs0, overlap_ok, multi_ok) ==
    LET found == _overlapping_inds(self)
        pairs == found.pairs
        fs1 == IF Len(pairs) > 0
               THEN to_file(makedirs(fs0, "errors"), "errors",
                            output_prefix \o "_overlaps.gpkg", get_overlaps(self).rows)
               ELSE fs0
        has_overlap == Len(pairs) > 0 /\ ~overlap_ok
        has_invalid == ~all_valid(self)
        fs2 == IF has_invalid
               THEN to_file(makedirs(fs1, "errors"), "errors",
                            output_prefix \o "_invalid.gpkg", invalid_rows(self))
               ELSE fs1
        multi == check_multi(self, fs2, multi_ok)
        fs3 == multi.fs
        cleaned_geom == [k \in 1..Len(self) |-> remove_repeated_points(self[k].geom)]
        cleaned == setitem_geometry(self, cleaned_geom)
    IN IF found.outcome # "ok"
       THEN [outcome |-> found.outcome, ds |-> self, fs |-> fs0]
       ELSE IF fs3.failed
       THEN [outcome |-> "IOError", ds |-> self, fs |-> fs3]
       ELSE IF has_overlap \/ has_invalid \/ multi.has_multi
       THEN [outcome |-> "AssertionError", ds |-> cleaned, fs |-> fs3]
       ELSE [outcome |-> "ok", ds |-> cleaned,
             fs |-> to_file(makedirs(fs3, "cleaned"), "cleaned",
                            output_prefix \o ".gpkg", cleaned)]

(* ------------------------------ reindex ------------------------------- *)

\* prefix=None
NoPrefix == "<None>"

\* the label with the counter left zero-based
label_zero_based(prefix, n, ndigits) == StrId(prefix, zfill(str(n), ndigits))

\* f"{prefix}.{str(n+1).zfill(ndigits)}"
label(prefix, n, ndigits) == StrId(prefix, zfill(str(n + 1), ndigits))

\* n ranges over range(len(self.ds)): the record at position k has n = k - 1
reindex(self, prefix) ==
    IF prefix = NoPrefix
    THEN [k \in 1..Len(self) |-> [self[k] EXCEPT !.id = IntId(k - 1)]]
    ELSE LET ndigits == Len(str(Len(self)))
         IN [k \in 1..Len(self) |->
                [self[k] EXCEPT !.id = label(prefix, k - 1, ndigits)]]

(* ------------------------- compute_difference -------------------------- *)

\* the rows of one side of the difference: the parts of g, labelled
pieces(g, tag) ==
    LET ps == parts(g)
    IN [k \in 1..Len(ps) |-> [geom |-> ps[k], attr |-> [difference |-> tag]]]

\* pd.concat(..., ignore_index=True)
concat_ignore_index(a, b) ==
    LET rows == a \o b
    IN [k \in 1..Len(rows) |->
          [id |-> IntId(k - 1), geom |-> rows[k].geom, attr |-> rows[k].attr]]

\* compute_difference with both sides taken from update.difference(other)
compute_difference_one_sided(self, oth) ==
    LET o == union_all(oth)
        update == union_all(self)
    IN concat_ignore_index(pieces(difference(update, o), "added"),
                           pieces(difference(update, o), "removed"))

compute_difference(self, oth) ==
    LET o == union_all(oth)
        update == union_all(self)
        removed == pieces(difference(o, update), "removed")
        added == pieces(difference(update, o), "added")
    IN concat_ignore_index(added, removed)

(* ----------------------------- rgi_loader ------------------------------ *)

rgi_regions ==
    [version \in {"v7.0", "v6.0"} |->
        IF version = "v7.0"
        THEN << "RGI2000-v7.0-G-01_alaska",
                "RGI2000-v7.0-G-02_western_canada_usa",
                "RGI2000-v7.0-G-03_arctic_canada_north",
                "RGI2000-v7.0-G-04_arctic_canada_south",
                "RGI2000-v7.0-G-05_greenland_periphery",
                "RGI2000-v7.0-G-06_iceland",
                "RGI2000-v7.0-G-07_svalbard_jan_mayen",
                "RGI2000-v7.0-G-08_scandinavia",
                "RGI2000-v7.0-G-09_russian_arctic",
                "RGI2000-v7.0-G-10_north_asia",
                "RGI2000-v7.0-G-11_central_europe",
                "RGI2000-v7.0-G-12_caucasus_middle_east",
                "RGI2000-v7.0-G-13_central_asia",
                "RGI2000-v7.0-G-14_south_asia_west",
                "RGI2000-v7.0-G-15_south_asia_east",
                "RGI2000-v7.0-G-16_low_latitudes",
                "RGI2000-v7.0-G-17_southern_andes",
                "RGI2000-v7.0-G-18_new_zealand",
                "RGI2000-v7.0-G-19_subantarctic_antarctic_islands" >>
        ELSE << "01_rgi60_Alaska",
                "02_rgi60_WesternCanadaUS",
                "03_rgi60_ArcticCanadaNorth",
                "04_rgi60_ArcticCanadaSouth",
                "05_rgi60_GreenlandPeriphery",
                "06_rgi60_Iceland",
                "07_rgi60_Svalbard",
                "08_rgi60_Scandinavia",
                "09_rgi60_RussianArctic",
                "10_rgi60_NorthAsia",
                "11_rgi60_CentralEurope",
                "12_rgi60_CaucasusMiddleEast",
                "13_rgi60_CentralAsia",
                "14_rgi60_SouthAsiaWest",
                "15_rgi60_SouthAsiaEast",
                "16_rgi60_LowLatitudes",
                "17_rgi60_SouthernAndes",
                "18_rgi60_NewZealand",
                "19_rgi60_AntarcticSubantarctic" >>]

\* a region given by number, and one given by name
IntReg(k) == [kind |-> "int", num |-> k, name |-> ""]

StrReg(s) == [kind |-> "str", num |-> 0, name |-> s]

\* lst[i] of a Python list: 0-based, a negative index counts from the end
list_getitem(lst, i) ==
    IF 0 <= i /\ i < Len(lst) THEN [outcome |-> "ok", item |-> lst[i + 1]]
    ELSE IF -Len(lst) <= i /\ i < 0
    THEN [outcome |-> "ok", item |-> lst[Len(lst) + i + 1]]
    ELSE [outcome |-> "IndexError", item |-> ""]

\* lines 57-58: a number is looked up in the list of the version
region_name(rgi_reg, version) ==
    IF rgi_reg.kind = "int"
    THEN list_getitem(rgi_regions[version], rgi_reg.num - 1)
    ELSE [outcome |-> "ok", item |-> rgi_reg.name]

\* rgi_loader against the set of paths that exist
rgi_loader(exists, rgi_dir, rgi_reg, version) ==
    LET reg == region_name(rgi_reg, version)
        flat == <<rgi_dir, reg.item \o ".shp">>
        nested == <<rgi_dir, reg.item, reg.item \o ".shp">>
    IN IF reg.outcome # "ok" THEN [outcome |-> reg.outcome, path |-> <<>>]
       ELSE IF flat \in exists THEN [outcome |-> "ok", path |-> flat]
       ELSE IF nested \in exists THEN [outcome |-> "ok", path |-> nested]
       ELSE [outcome |-> "FileNotFoundError", path |-> <<>>]

(* ------------------------------ join_rgi ------------------------------- *)

\* shapely's intersects on cell sets: cells that coincide or share an end
intersects(c, d) == \E a \in c, b \in d : a - b <= 1 /\ b - a <= 1

\* the envelope of a geometry: the cells from its lowest to its highest
envelope(g) == IF g.cells = {} THEN {} ELSE Min(g.cells)..Max(g.cells)

\* GeoDataFrame.sjoin(right) with its defaults how='inner',
\* predicate='intersects': one row per (left record, right point) whose point
\* lies in the left geometry, the left label kept, the right label and
\* attribute added as columns
RECURSIVE sjoin(_, _)
sjoin(left, centers) ==
    IF left = <<>> THEN <<>>
    ELSE LET l == Head(left)
             hits == SelectSeq(centers, LAMBDA c : c.point \in l.geom.cells)
         IN [k \in 1..Len(hits) |->
               [id |-> l.id, geom |-> l.geom,
                attr |-> [row |-> l.attr.row, index_right |-> hits[k].id,
                          rgi_id |-> hits[k].attr.rgi_id]]]
            \o sjoin(Tail(left), centers)

\* whether a collection already carries the columns a join adds
is_joined(self) ==
    \E k \in 1..Len(self) : "index_right" \in DOMAIN self[k].attr

\* join_rgi.  refs is the collection stored at the resolved path; points[k]
\* is the representative point of reference record k, some cell of it.
\* An empty self has no extent to estimate a UTM zone from, and a self
\* that already has an index_right column is refused by sjoin.
join_rgi(self, exists, refs, points, rgi_reg, rgi_dir, version, inplace) ==
    LET found == rgi_loader(exists, rgi_dir, rgi_reg, version)
        env == envelope(union_all(self))
        keep == {k \in 1..Len(refs) : intersects(refs[k].geom.cells, env)}
        reduced == SelectSeq([k \in 1..Len(refs) |->
                                 [id |-> refs[k].id, attr |-> refs[k].attr,
                                  point |-> points[k], kept |-> (k \in keep)]],
                             LAMBDA c : c.kept)
        joined == sjoin(self, reduced)
    IN IF found.outcome # "ok"
       THEN [outcome |-> found.outcome, ds |-> self, value |-> <<>>]
       ELSE IF self = <<>>
       THEN [outcome |-> "RuntimeError", ds |-> self, value |-> <<>>]
       ELSE IF is_joined(self)
       THEN [outcome |-> "ValueError", ds |-> self, value |-> <<>>]
       ELSE IF inplace
       THEN [outcome |-> "ok", ds |-> joined, value |-> <<>>]
       ELSE [outcome |-> "ok", ds |-> self, value |-> joined]

(* --------------------------- calls and state --------------------------- *)

NoCall ==
    [op |-> "none", outcome |-> "none", args |-> <<>>, value |-> <<>>,
     oplog |-> <<>>, self0 |-> <<>>, other0 |-> <<>>, dirs0 |-> {}]

Call(op, outcome, args, value, oplog) ==
    [op |-> op, outcome |-> outcome, args |-> args, value |-> value,
     oplog |-> oplog, self0 |-> ds, other0 |-> other, dirs0 |-> dirs]

Prefixes == {NoPrefix, "X"}

OutputDirs == {"errors", "cleaned"}

Init ==
    /\ ds \in Collections(CleanGeoms(NCells), MaxRecs)
    /\ dirs \in SUBSET OutputDirs
    /\ files = {}
    /\ other = <<>>
    /\ rgi = <<>>
    /\ shp = {}
    /\ ret = NoCall
    /\ prev = NoCall

OverlappingInds ==
    \E r \in {_overlapping_inds(ds)} :
       /\ ret' = Call("_overlapping_inds", r.outcome, <<>>, r.pairs, <<>>)
       /\ UNCHANGED <<ds, other, rgi, dirs, files, shp, prev>>

GetOverlaps ==
    \E r \in {get_overlaps(ds)} :
       /\ ret' = Call("get_overlaps", r.outcome, <<>>, r.rows, <<>>)
       /\ UNCHANGED <<ds, other, rgi, dirs, files, shp, prev>>

Validate ==
    \E overlap_ok \in BOOLEAN, multi_ok \in BOOLEAN :
        \E r \in {validate(ds, [dirs |-> dirs, files |-> files, oplog |-> <<>>,
                                failed |-> FALSE], overlap_ok, multi_ok)} :
           /\ ds' = r.ds
           /\ dirs' = r.fs.dirs
           /\ files' = r.fs.files
           /\ ret' = Call("validate", r.outcome, <<overlap_ok, multi_ok>>, <<>>,
                          r.fs.oplog)
           /\ UNCHANGED <<other, rgi, shp, prev>>

Reindex ==
    \E prefix \in Prefixes :
        /\ ds' = reindex(ds, prefix)
        /\ ret' = Call("reindex", "ok", <<prefix>>, <<>>, <<>>)
        /\ UNCHANGED <<other, rgi, dirs, files, shp, prev>>

Next == OverlappingInds \/ GetOverlaps \/ Validate \/ Reindex

Spec == Init /\ [][Next]_vars

(* ----------------- validate on geometries to be cleaned ---------------- *)

\* errors/ may or may not exist; cleaned/ is left to be created by the call
InitClean ==
    /\ ds \in Collections(Geoms(CleanCells), MaxCleanRecs)
    /\ dirs \in SUBSET {"errors"}
    /\ files = {}
    /\ other = <<>>
    /\ rgi = <<>>
    /\ shp = {}
    /\ ret = NoCall
    /\ prev = NoCall

NextClean == Validate

SpecClean == InitClean /\ [][NextClean]_vars

(* ------------------------- two collections ---------------------------- *)

InitDiff ==
    /\ ds \in Collections(PlainGeoms(DiffCells), MaxDiffRecs)
    /\ other \in Collections(PlainGeoms(DiffCells), MaxDiffRecs)
    /\ dirs = {}
    /\ files = {}
    /\ rgi = <<>>
    /\ shp = {}
    /\ ret = NoCall
    /\ prev = NoCall

\* self.compute_difference(other), or other.compute_difference(self)
ComputeDifference ==
    \E receiver \in {"self", "other"} :
        \E r \in {IF receiver = "self" THEN compute_difference(ds, other)
                                        ELSE compute_difference(other, ds)} :
           /\ ret' = Call("compute_difference", "ok", <<receiver>>, r, <<>>)
           /\ prev' = ret
           /\ UNCHANGED <<ds, other, rgi, dirs, files, shp>>

NextDiff == ComputeDifference

SpecDiff == InitDiff /\ [][NextDiff]_vars

(* --------------------------- large collections ------------------------- *)

InitReindex ==
    /\ ds \in {Loaded([k \in 1..n |-> Plain({1})]) : n \in 0..MaxReindexRecs}
    /\ dirs = {}
    /\ files = {}
    /\ other = <<>>
    /\ rgi = <<>>
    /\ shp = {}
    /\ ret = NoCall
    /\ prev = NoCall

NextReindex == Reindex

SpecReindex == InitReindex /\ [][NextReindex]_vars

(* ---------------------------- region resolver -------------------------- *)

rgi_dir0 == "rgi"

\* the reference files that may be present: regions 1 and 19 of v7.0 and
\* region 1 of v6.0, each flat or in a directory of its name
LoaderNames ==
    {rgi_regions["v7.0"][1], rgi_regions["v7.0"][Len(rgi_regions["v7.0"])],
     rgi_regions["v6.0"][1]}

LoaderPaths ==
    {<<rgi_dir0, n \o ".shp">> : n \in LoaderNames}
        \cup {<<rgi_dir0, n, n \o ".shp">> : n \in LoaderNames}

InitLoader ==
    /\ shp \in SUBSET LoaderPaths
    /\ ds = <<>>
    /\ other = <<>>
    /\ rgi = <<>>
    /\ dirs = {}
    /\ files = {}
    /\ ret = NoCall
    /\ prev = NoCall

RgiLoader ==
    \E rgi_reg \in {IntReg(k) : k \in (-RegionSpan)..RegionSpan}
                      \cup {StrReg(n) : n \in LoaderNames},
       version \in DOMAIN rgi_regions :
        \E r \in {rgi_loader(shp, rgi_dir0, rgi_reg, version)} :
           /\ ret' = Call("rgi_loader", r.outcome, <<rgi_reg, version>>, r.path, <<>>)
           /\ UNCHANGED <<ds, other, rgi, dirs, files, shp, prev>>

NextLoader == RgiLoader

SpecLoader == InitLoader /\ [][NextLoader]_vars

(* ------------------------------ the join ------------------------------- *)

\* a reference inventory: RangeIndex, and an rgi_id column
RefCollections ==
    {[k \in 1..Len(gs) |->
         [id |-> IntId(k - 1), geom |-> gs[k],
          attr |-> [rgi_id |-> <<"RGI", k>>]]] :
        gs \in SeqsUpTo(PlainGeoms(JoinCells), MaxRefRecs)}

JoinName == rgi_regions["v7.0"][1]

InitJoin ==
    /\ ds \in Collections(PlainGeoms(JoinCells), MaxJoinRecs)
    /\ rgi \in RefCollections
    /\ shp \in SUBSET {<<rgi_dir0, JoinName, JoinName \o ".shp">>}
    /\ other = <<>>
    /\ dirs = {}
    /\ files = {}
    /\ ret = NoCall
    /\ prev = NoCall

JoinRgi ==
    \E rgi_reg \in {IntReg(1)}, inplace \in BOOLEAN,
       points \in [1..Len(rgi) -> 1..JoinCells] :
        /\ \A k \in 1..Len(rgi) : points[k] \in rgi[k].geom.cells
        /\ \E r \in {join_rgi(ds, shp, rgi, points, rgi_reg, rgi_dir0, "v7.0", inplace)} :
              /\ ds' = r.ds
              /\ ret' = Call("join_rgi", r.outcome,
                             [rgi_reg |-> rgi_reg, inplace |-> inplace,
                              points |-> points], r.value, <<>>)
              /\ UNCHANGED <<other, rgi, dirs, files, shp, prev>>

NextJoin == JoinRgi

SpecJoin == InitJoin /\ [][NextJoin]_vars

(* ------------------- claims on overlap detection ---------------------- *)

\* the pairs of positions i < j of a collection whose geometries overlap
OverlapPositions(self) ==
    {pq \in (1..Len(self)) \X (1..Len(self)) :
        pq[1] < pq[2] /\ overlaps(self[pq[1]].geom, self[pq[2]].geom)}

Elems(sq) == {sq[k] : k \in 1..Len(sq)}

\* C1: _overlapping_inds returns exactly the pairs (id at i, id at j), i < j,
\* of overlapping records, each once and earlier identifier first, whatever
\* the identifiers are.
C1_PairsAreUpperTriangle ==
    ret.op = "_overlapping_inds" =>
        /\ ret.outcome = "ok"
        /\ Elems(ret.value) =
              {<<ret.self0[pq[1]].id, ret.self0[pq[2]].id>> :
                  pq \in OverlapPositions(ret.self0)}
        /\ Len(ret.value) = Cardinality(OverlapPositions(ret.self0))

\* C2: on a collection of zero or one record both _overlapping_inds and
\* get_overlaps complete normally and return nothing.
C2_SmallCollectionsYieldNothing ==
    (ret.op \in {"_overlapping_inds", "get_overlaps"} /\ Len(ret.self0) <= 1) =>
        (ret.outcome = "ok" /\ ret.value = <<>>)

(* ------------------------ claims on validate -------------------------- *)

SomeOverlap(self) == OverlapPositions(self) # {}

SomeMulti(self) == \E k \in 1..Len(self) : Cardinality(Runs(self[k].geom.cells)) > 1

\* the writes of the call that succeeded, as (directory, file) pairs
Written(log) ==
    {<<log[k].dir, log[k].file>> : k \in {j \in 1..Len(log) :
                                            log[j].op = "to_file" /\ log[j].ok}}

WrittenUnder(log, d) == {w \in Written(log) : w[1] = d}

\* C3: validate fails with a validation failure exactly when a disallowed
\* overlap, an invalid record or a disallowed multi-part record exists, and
\* writes the cleaned file (one file, and nothing under errors/ for a sound
\* collection) exactly when it does not fail.
C3_FailsExactlyOnDefects ==
    ret.op = "validate" =>
        LET self == ret.self0
            defect == \/ (SomeOverlap(self) /\ ~ret.args[1])
                      \/ ~all_valid(self)
                      \/ (SomeMulti(self) /\ ~ret.args[2])
        IN /\ (ret.outcome = "AssertionError") <=> defect
           /\ (WrittenUnder(ret.oplog, "cleaned") # {}) <=> (ret.outcome = "ok")
           /\ (~SomeOverlap(self) /\ all_valid(self) /\ ~SomeMulti(self)) =>
                 /\ ret.outcome = "ok"
                 /\ WrittenUnder(ret.oplog, "errors") = {}
                 /\ Cardinality(WrittenUnder(ret.oplog, "cleaned")) = 1

\* C4: every write of validate goes to a location that existed before the
\* call or that the call has created before the write.
C4_WritesFollowCreation ==
    ret.op = "validate" =>
        \A i \in 1..Len(ret.oplog) :
            ret.oplog[i].op = "to_file" =>
                \/ ret.oplog[i].dir \in ret.dirs0
                \/ \E j \in 1..(i - 1) : /\ ret.oplog[j].op = "makedirs"
                                         /\ ret.oplog[j].dir = ret.oplog[i].dir

\* C5: whenever the collection holds a multi-part record, validate writes
\* the original multi-part records to the _multi review file, whatever
\* multi_ok is and whatever the other checks found.
C5_MultiAlwaysReported ==
    (ret.op = "validate" /\ SomeMulti(ret.self0)) =>
        /\ <<"errors", output_prefix \o "_multi.gpkg">> \in Written(ret.oplog)
        /\ \E f \in files :
              /\ f.dir = "errors"
              /\ f.file = output_prefix \o "_multi.gpkg"
              /\ f.rows = SelectSeq(ret.self0,
                                    LAMBDA r : Cardinality(Runs(r.geom.cells)) > 1)

Labelled(rows, tag) ==
    LET hit == SelectSeq(rows, LAMBDA r : r.attr.difference = tag)
    IN [k \in 1..Len(hit) |-> hit[k].geom]

Cover(rows) == UNION {rows[k].geom.cells : k \in 1..Len(rows)}

SinglePart(g) == Cardinality(Runs(g.cells)) <= 1

\* C7: the added geometries of A.compute_difference(B) are the removed ones
\* of B.compute_difference(A) and the other way round; added covers
\* dissolved self minus dissolved other in single parts, removed the
\* converse; neither collection is changed by a call.
C7_DifferenceIsAntisymmetric ==
    ret.op = "compute_difference" =>
        LET A == IF ret.args[1] = "self" THEN ret.self0 ELSE ret.other0
            B == IF ret.args[1] = "self" THEN ret.other0 ELSE ret.self0
            added == Labelled(ret.value, "added")
            removed == Labelled(ret.value, "removed")
        IN /\ ds = ret.self0
           /\ other = ret.other0
           /\ UNION {g.cells : g \in Elems(added)} = Cover(A) \ Cover(B)
           /\ UNION {g.cells : g \in Elems(removed)} = Cover(B) \ Cover(A)
           /\ \A g \in Elems(added) \cup Elems(removed) : SinglePart(g)
           /\ (prev.op = "compute_difference" /\ prev.args # ret.args) =>
                 /\ added = Labelled(prev.value, "removed")
                 /\ removed = Labelled(prev.value, "added")

\* both directions were computed, and each side of the difference is not empty
C7_Witness ==
    /\ ret.op = "compute_difference"
    /\ prev.op = "compute_difference"
    /\ prev.args # ret.args
    /\ \E g \in Elems(Labelled(ret.value, "added")) : g.cells # {}
    /\ \E g \in Elems(Labelled(ret.value, "removed")) : g.cells # {}
    /\ Len(Labelled(ret.value, "added")) > 1

(* -------------------------- claims on reindex -------------------------- *)

RECURSIVE Pow10(_)
Pow10(w) == IF w = 0 THEN 1 ELSE 10 * Pow10(w - 1)

\* the number of decimal digits of n
Width(n) == CHOOSE w \in 1..(n + 1) : n < Pow10(w) /\ (w = 1 \/ n >= Pow10(w - 1))

\* the number a sequence of decimal digits denotes
RECURSIVE Value(_)
Value(d) == IF d = <<>> THEN 0 ELSE 10 * Value(SubSeq(d, 1, Len(d) - 1)) + d[Len(d)]

\* C8: reindex(prefix) labels the record at position k (0-based) prefix.NNN,
\* NNN being k+1 in as many digits as the record count has; reindex() labels
\* it k.  The labels are pairwise distinct; order, geometry and attributes
\* are unchanged.
C8_ReindexLabels ==
    ret.op = "reindex" =>
        LET n == Len(ret.self0)
            prefix == ret.args[1]
        IN /\ Len(ds) = n
           /\ \A k \in 1..n :
                 /\ ds[k].geom = ret.self0[k].geom
                 /\ ds[k].attr = ret.self0[k].attr
                 /\ prefix = NoPrefix => ds[k].id = IntId(k - 1)
                 /\ prefix # NoPrefix =>
                       /\ ds[k].id.kind = "str"
                       /\ ds[k].id.prefix = prefix
                       /\ Len(ds[k].id.digits) = Width(n)
                       /\ \A i \in 1..Len(ds[k].id.digits) : ds[k].id.digits[i] \in 0..9
                       /\ Value(ds[k].id.digits) = k
           /\ \A j \in 1..n, k \in 1..n : j # k => ds[j].id # ds[k].id
           /\ (prefix = "X" /\ n = 12) =>
                 ds[1].id = StrId("X", <<0, 1>>) /\ ds[12].id = StrId("X", <<1, 2>>)
           /\ (prefix = "X" /\ n = 150) =>
                 ds[1].id = StrId("X", <<0, 0, 1>>) /\ ds[150].id = StrId("X", <<1, 5, 0>>)

\* 150 records relabelled with a prefix
C8_Witness ==
    /\ ret.op = "reindex"
    /\ ret.args[1] = "X"
    /\ Len(ds) = 150
    /\ ds[7].id = StrId("X", <<0, 0, 7>>)

(* --------------------------- claims on join_rgi ------------------------ *)

\* C9: join_rgi drops no record of self: a record holding no reference
\* point gives one row with null reference attributes, one holding a single
\* point gives a row with that record's attributes, one holding m > 1 gives
\* m rows; inplace=False leaves self alone and returns the result,
\* inplace=True puts it in self and returns nothing.
C9_JoinKeepsEveryRecord ==
    (ret.op = "join_rgi" /\ ret.outcome = "ok") =>
        LET self == ret.self0
            result == IF ret.args.inplace THEN ds ELSE ret.value
            holds(k) == {j \in 1..Len(rgi) : ret.args.points[j] \in self[k].geom.cells}
            rowsOf(k) == {i \in 1..Len(result) : result[i].id = self[k].id}
        IN /\ ret.args.inplace => ret.value = <<>>
           /\ ~ret.args.inplace => ds = self
           /\ \A k \in 1..Len(self) :
                 /\ holds(k) = {} =>
                       /\ Cardinality(rowsOf(k)) = 1
                       /\ \A i \in rowsOf(k) : result[i].attr.rgi_id = "NaN"
                 /\ holds(k) # {} =>
                       /\ Cardinality(rowsOf(k)) = Cardinality(holds(k))
                       /\ {result[i].attr.rgi_id : i \in rowsOf(k)}
                             = {rgi[j].attr.rgi_id : j \in holds(k)}

(* -------------------------- claims on rgi_loader ----------------------- *)

\* C10: a region number k in 1..19 resolves as the name at list position
\* k-1 does, and every other number fails.
C10_NumbersResolveWithinRange ==
    (ret.op = "rgi_loader" /\ ret.args[1].kind = "int") =>
        LET k == ret.args[1].num
            version == ret.args[2]
            names == rgi_regions[version]
        IN IF k \in 1..Len(names)
           THEN LET byName == rgi_loader(shp, rgi_dir0, StrReg(names[k]), version)
                IN ret.outcome = byName.outcome /\ ret.value = byName.path
           ELSE ret.outcome # "ok"

====
